---- MODULE Spec2Model ----
(***************************************************************************)
(* Model of src/app.py: the pipeline create_faiss_index_from_files, its    *)
(* scratch directories, and the archive it writes at a fixed path.         *)
(* A worker executes the function one statement group at a time; pc holds  *)
(* the source line the worker is about to execute.                         *)
(***************************************************************************)
EXTENDS Naturals, Sequences, FiniteSets, TLC

\* ------------------------------------------------------------- bounds
MaxFiles == 2
MaxRuns == 2
NProcs == 2

Procs == 1..NProcs
RunIds == 1..MaxRuns
\* The worker of the sequential specification (Gradio's queue runs one event at a time).
Main == CHOOSE p \in Procs : \A q \in Procs : p <= q

\* ------------------------------------------------------------- values
None == "None"
\* os.path.join(tempfile.gettempdir(), "faiss_index_google.zip")
ArchivePath == "tmp/faiss_index_google.zip"
Artifacts == {"index.faiss", "index.pkl"}

\* Status strings returned by the function (the text before any formatted part).
ERR_EMBEDDINGS == "ERROR: Embeddings model could not be initialized."
ERR_EMPTY == "Please upload transcript files first."
ERR_COPY == "Error handling one or more uploaded files during copy."
ERR_NO_DOCS == "Could not load any text from the uploaded files."
ERR_NO_CHUNKS == "Error: No text chunks were generated after splitting the documents."
ERR_EXCEPTION == "An error occurred during processing"
OK_SUCCESS == "Successfully processed"
FailureStatuses == {ERR_EMBEDDINGS, ERR_EMPTY, ERR_COPY, ERR_NO_DOCS, ERR_NO_CHUNKS, ERR_EXCEPTION}

\* What the caller has got from a run: nothing yet, a returned pair, or an exception.
NotCalled == [status |-> "not called", n |-> 0, path |-> None]
Pending == [status |-> "pending", n |-> 0, path |-> None]
Escaped == [status |-> "exception escaped", n |-> 0, path |-> None]
Failure(s) == [status |-> s, n |-> 0, path |-> None]
Success(n, path) == [status |-> OK_SUCCESS, n |-> n, path |-> path]

\* ------------------------------------------------------------- uploads
\* An uploaded file object: whether it has a .name, the path that names it, and
\* what is at that path: decodable text, an empty file, bytes that do not decode,
\* or nothing (the source is gone, so shutil.copy raises).
Path(d, s, e) == [dir |-> d, stem |-> s, ext |-> e]
FileObj(h, p, c) == [hasName |-> h, name |-> p, content |-> c]
F_ax == FileObj(TRUE, Path("a", "x", "txt"), "text")
F_bx == FileObj(TRUE, Path("b", "x", "txt"), "text")
F_ay == FileObj(TRUE, Path("a", "y", "txt"), "text")
F_ae == FileObj(TRUE, Path("a", "e", "txt"), "empty")
F_au == FileObj(TRUE, Path("a", "u", "txt"), "binary")
F_ad == FileObj(TRUE, Path("a", "d", "dat"), "text")
F_am == FileObj(TRUE, Path("a", "m", "txt"), "missing")
F_nn == FileObj(FALSE, Path("-", "-", "-"), "text")
FileObjs == {F_ax, F_bx, F_ay, F_ae, F_au, F_ad, F_am, F_nn}

RECURSIVE SeqsUpTo(_, _)
SeqsUpTo(S, n) ==
    IF n = 0 THEN {<<>>}
    ELSE LET shorter == SeqsUpTo(S, n - 1)
         IN shorter \cup {Append(s, x) : s \in {t \in shorter : Len(t) = n - 1}, x \in S}

\* The batches the sequential specification uploads.
Inputs == SeqsUpTo(FileObjs, MaxFiles)
\* The batches the concurrent specification uploads (each run uploads its own copies).
ConcInputs == {<<>>, <<F_ax>>, <<F_ay>>, <<F_am>>, <<F_nn>>, <<F_au>>, <<F_ae>>}

\* os.path.basename: the directory part is dropped.
basename(path) == [stem |-> path.stem, ext |-> path.ext]
\* glob "**/*.txt" of the DirectoryLoader.
MatchesGlob(base) == base.ext = "txt"
\* TextLoader with silent_errors: a file that does not decode is skipped.
Decodes(f) == f.content \in {"text", "empty"}
\* RecursiveCharacterTextSplitter: a short text is one chunk, an empty text none.
ChunksOf(f) == IF f.content = "text" THEN {1} ELSE {}

\* ------------------------------------------------------------- state
VARIABLES
    embeddings,   \* the module-level embeddings object: None or "ready"
    runs,         \* number of invocations so far
    archive,      \* the file at ArchivePath
    frame         \* worker -> the locals of its invocation of create_faiss_index_from_files

vars == <<embeddings, runs, archive, frame>>

NoFile == [exists |-> FALSE, entries |-> <<>>, closed |-> FALSE]
Hole == [name |-> "hole", run |-> 0]
Entry(name, r) == [name |-> name, run |-> r]

IdleFrame ==
    [pc |-> "idle", run |-> 0, files_list |-> <<>>, i |-> 0,
     all_files_processed |-> TRUE, output_zip_path |-> None,
     temp_upload_dir |-> "none", temp_index_dir |-> "none",
     workdir |-> {}, documents |-> {}, split_docs |-> {},
     vector_store |-> [built |-> FALSE, chunks |-> {}],
     saved |-> {}, zipfd |-> "closed", zipPos |-> 0,
     exc |-> "none", escaped |-> "none", calls |-> {}, result |-> NotCalled]

\* Module initialisation: embeddings stays None without a key or when the constructor raises.
InitEmbeddings(hasKey, ctorOK) == IF hasKey /\ ctorOK THEN "ready" ELSE None

Init ==
    /\ \E hasKey \in BOOLEAN, ctorOK \in BOOLEAN : embeddings = InitEmbeddings(hasKey, ctorOK)
    /\ runs = 0
    /\ archive = NoFile
    /\ frame = [p \in Procs |-> IdleFrame]

\* ------------------------------------------------------------- helpers
Ended(p) == frame[p].pc \in {"returned", "raised"}

\* The worker moves on with its locals changed to f.
Step(p, f) == frame' = [frame EXCEPT ![p] = f]

\* return status, path
Return(p, f, res) == Step(p, [f EXCEPT !.pc = "returned", !.result = res])

\* An exception raised outside the try block (or inside the except block) leaves the function.
Escape(p, site) ==
    Step(p, [frame[p] EXCEPT !.pc = "raised", !.escaped = site, !.result = Escaped])

\* An exception raised inside the try block enters the except block, which binds it (e).
Caught(f, site) == [f EXCEPT !.pc = "L148", !.exc = site]

\* os.path.exists of an artifact file in the index-save directory.
ArtifactExists(f, name) == f.temp_index_dir = "exists" /\ name \in f.saved

\* ------------------------------------------------------------- entry
\* The two guards in the other order: the empty batch is answered before embeddings is looked at.
EntryCheckEmptyFirst(emb, fl) ==
    IF fl = <<>> THEN ERR_EMPTY
    ELSE IF emb = None THEN ERR_EMBEDDINGS
    ELSE "proceed"

\* Lines 50-53: the two guards, in the order of the code.
EntryCheck(emb, fl) ==
    IF emb = None THEN ERR_EMBEDDINGS
    ELSE IF fl = <<>> THEN ERR_EMPTY
    ELSE "proceed"

\* The archive path computed at line 58 already, instead of None.
InitialZipPathEarly == ArchivePath

\* Line 58: output_zip_path = None.

InitialZipPath == None

Call(p, fl) ==
    /\ frame[p].pc = "idle"
    /\ runs < MaxRuns
    /\ runs' = runs + 1
    /\ LET f0 == [IdleFrame EXCEPT !.run = runs + 1, !.files_list = fl, !.result = Pending]
           check == EntryCheck(embeddings, fl)
       IN IF check # "proceed"
          THEN Return(p, f0, Failure(check))
          ELSE Step(p, [f0 EXCEPT !.pc = "L56"])
    /\ UNCHANGED <<embeddings, archive>>

\* The UI calls the function for one event at a time.
Invoke(p) ==
    /\ \A q \in Procs \ {p} : frame[q].pc = "idle"
    /\ \E fl \in Inputs : Call(p, fl)

\* Two events handled at once.
InvokeConcurrently(p) == \E fl \in ConcInputs : Call(p, fl)

\* Line 56: temp_upload_dir = tempfile.TemporaryDirectory(). The directory stays until
\* cleanup() is called; the object's finalizer can remove it only once the call is
\* over and its locals are collected.
MakeUploadDir(p) ==
    /\ frame[p].pc = "L56"
    /\ \/ /\ Step(p, [frame[p] EXCEPT !.pc = "L57", !.temp_upload_dir = "exists"])
       \/ Escape(p, "L56")
    /\ UNCHANGED <<embeddings, runs, archive>>

\* Lines 57-59: temp_index_dir = tempfile.mkdtemp(); output_zip_path = None; all_files_processed = True
MakeIndexDir(p) ==
    /\ frame[p].pc = "L57"
    /\ \/ /\ Step(p, [frame[p] EXCEPT !.pc = "L62", !.temp_index_dir = "exists",
                                      !.output_zip_path = InitialZipPath,
                                      !.all_files_processed = TRUE])
       \/ Escape(p, "L57")
    /\ UNCHANGED <<embeddings, runs, archive>>

\* ------------------------------------------------------------- intake
\* Where the loop goes after a copy: the next file, whatever the copy did.
AfterCopy(copied) == "L62"

\* shutil.copy(src, dst): dst is created or overwritten.
CopyInto(workdir, base, k) ==
    {w \in workdir : w.base # base} \cup {[base |-> base, input |-> k]}

\* Lines 62-75: one iteration of the copy loop, or its end.
CopyLoop(p) ==
    LET f == frame[p]
        k == f.i + 1
    IN
    /\ f.pc = "L62"
    /\ \/ /\ k > Len(f.files_list)
          /\ Step(p, [f EXCEPT !.pc = "L77"])
       \/ /\ k <= Len(f.files_list)
          /\ ~f.files_list[k].hasName
          /\ Escape(p, "L65")
       \/ /\ k <= Len(f.files_list)
          /\ f.files_list[k].hasName
          /\ f.files_list[k].content # "missing"
          /\ Step(p, [f EXCEPT !.i = k, !.pc = AfterCopy(TRUE), !.calls = @ \cup {"copy"},
                               !.workdir = CopyInto(@, basename(f.files_list[k].name), k)])
       \/ /\ k <= Len(f.files_list)
          /\ f.files_list[k].hasName
          /\ f.files_list[k].content = "missing"
          /\ Step(p, [f EXCEPT !.i = k, !.pc = AfterCopy(FALSE), !.calls = @ \cup {"copy"},
                               !.all_files_processed = FALSE])
    /\ UNCHANGED <<embeddings, runs, archive>>

\* Line 77: if not all_files_processed
\* The batch goes on to the loader only when every copy succeeded.
AbortBatch(all_ok) == ~all_ok

CheckCopies(p) ==
    /\ frame[p].pc = "L77"
    /\ Step(p, [frame[p] EXCEPT !.pc = IF AbortBatch(frame[p].all_files_processed)
                                       THEN "L78" ELSE "L84"])
    /\ UNCHANGED <<embeddings, runs, archive>>

\* ------------------------------------------------------------- release
\* Where control goes after a release statement that did not raise.
AfterRelease(l) ==
    CASE l = "L78" -> "L79"   [] l = "L79" -> "L80"
      [] l = "L95" -> "L96"   [] l = "L96" -> "L98"
      [] l = "L109" -> "L110" [] l = "L110" -> "L111"
      [] l = "L141" -> "L142" [] l = "L142" -> "L144"
      [] l = "L148" -> "L149" [] l = "L150" -> "L151"

\* The release statements written inside the try block (lines 82-144).
InsideTry(l) == l \in {"L95", "L96", "L109", "L110", "L141", "L142"}

\* temp_upload_dir.cleanup() at lines 78, 95, 109, 141, 148. A second cleanup of a
\* directory already removed does nothing.
ReleaseUpload(p) ==
    LET f == frame[p] IN
    /\ f.pc \in {"L78", "L95", "L109", "L141", "L148"}
    /\ \/ /\ f.temp_upload_dir = "exists"
          /\ Step(p, [f EXCEPT !.pc = AfterRelease(f.pc), !.temp_upload_dir = "removed"])
       \/ /\ f.temp_upload_dir = "removed"
          /\ Step(p, [f EXCEPT !.pc = AfterRelease(f.pc)])
       \/ /\ f.temp_upload_dir = "exists"
          /\ InsideTry(f.pc)
          /\ Step(p, Caught(f, f.pc))
       \/ /\ f.temp_upload_dir = "exists"
          /\ ~InsideTry(f.pc)
          /\ Escape(p, f.pc)
    /\ UNCHANGED <<embeddings, runs, archive>>

\* shutil.rmtree(temp_index_dir) at lines 79, 96, 110, 142, 150.
ReleaseIndex(p) ==
    LET f == frame[p] IN
    /\ f.pc \in {"L79", "L96", "L110", "L142", "L150"}
    /\ \/ /\ Step(p, [f EXCEPT !.pc = AfterRelease(f.pc), !.temp_index_dir = "removed"])
       \/ /\ InsideTry(f.pc)
          /\ Step(p, Caught(f, f.pc))
       \/ /\ ~InsideTry(f.pc)
          /\ Escape(p, f.pc)
    /\ UNCHANGED <<embeddings, runs, archive>>

\* ------------------------------------------------------------- load, split, embed, save
\* Lines 84-94: DirectoryLoader(...).load(), then the empty check.
Load(p) ==
    LET f == frame[p]
        docs == {[source |-> w.base, input |-> w.input] :
                    w \in {v \in f.workdir :
                             MatchesGlob(v.base) /\ Decodes(f.files_list[v.input])}}
    IN
    /\ f.pc = "L84"
    /\ \/ Step(p, [f EXCEPT !.documents = docs, !.calls = @ \cup {"load"},
                            !.pc = IF docs = {} THEN "L95" ELSE "L104"])
       \/ Step(p, [Caught(f, "L92") EXCEPT !.calls = @ \cup {"load"}])
    /\ UNCHANGED <<embeddings, runs, archive>>

\* Lines 104-108: split_documents, then the empty check.
Split(p) ==
    LET f == frame[p]
        chunks == UNION {{[source |-> d.source, input |-> d.input, k |-> k] :
                            k \in ChunksOf(f.files_list[d.input])} : d \in f.documents}
    IN
    /\ f.pc = "L104"
    /\ \/ Step(p, [f EXCEPT !.split_docs = chunks, !.calls = @ \cup {"split"},
                            !.pc = IF chunks = {} THEN "L109" ELSE "L115"])
       \/ Step(p, [Caught(f, "L105") EXCEPT !.calls = @ \cup {"split"}])
    /\ UNCHANGED <<embeddings, runs, archive>>

\* Line 115: FAISS.from_documents(split_docs, embeddings): the remote call may fail.
Embed(p) ==
    LET f == frame[p] IN
    /\ f.pc = "L115"
    /\ \/ Step(p, [f EXCEPT !.vector_store = [built |-> TRUE, chunks |-> f.split_docs],
                            !.calls = @ \cup {"embed"}, !.pc = "L120"])
       \/ Step(p, [Caught(f, "L115") EXCEPT !.calls = @ \cup {"embed"}])
    /\ UNCHANGED <<embeddings, runs, archive>>

\* Lines 119-121: vector_store.save_local(index_save_path). The call writes index.faiss,
\* then index.pkl; it may raise, and it may return having written only some of them.
Save(p) ==
    LET f == frame[p] IN
    /\ f.pc = "L120"
    /\ \/ \E written \in SUBSET Artifacts :
            Step(p, [f EXCEPT !.saved = written, !.calls = @ \cup {"save"}, !.pc = "L126"])
       \/ \E written \in {{}, {"index.faiss"}} :
            Step(p, [Caught(f, "L120") EXCEPT !.saved = written, !.calls = @ \cup {"save"}])
    /\ UNCHANGED <<embeddings, runs, archive>>

\* Line 126: not exists(index.faiss) or not exists(index.pkl)
ArtifactsMissing(f) ==
    ~ArtifactExists(f, "index.faiss") \/ ~ArtifactExists(f, "index.pkl")

\* The directories removed (lines 141-142) without the archive written before.
AfterVerifyCleanupFirst == "L141"

\* Lines 129-142: the archive is written first, the directories are removed after it.

AfterVerify == "L135"

\* Lines 124-133: the check of the two files, then output_zip_path is set.
Verify(p) ==
    LET f == frame[p] IN
    /\ f.pc = "L126"
    /\ \/ /\ ArtifactsMissing(f)
          /\ Step(p, Caught(f, "L127"))
       \/ /\ ~ArtifactsMissing(f)
          /\ Step(p, [f EXCEPT !.output_zip_path = ArchivePath, !.pc = AfterVerify])
    /\ UNCHANGED <<embeddings, runs, archive>>

\* ------------------------------------------------------------- archive
\* zipfile.ZipFile(path, 'a'): the entries already in the file are kept.
OpenForAppend(a) == [exists |-> TRUE, entries |-> a.entries, closed |-> FALSE]

\* zipfile.ZipFile(path, 'w'): the file is created, or truncated when it exists.
OpenForWrite(a) == [exists |-> TRUE, entries |-> <<>>, closed |-> FALSE]

\* A write at the writer's own offset k of the file: it overwrites what is there and
\* leaves a hole when the file was truncated under the writer.
WriteAt(entries, k, e) ==
    IF k <= Len(entries) THEN [entries EXCEPT ![k] = e]
    ELSE [j \in 1..k |-> IF j <= Len(entries) THEN entries[j]
                         ELSE IF j = k THEN e ELSE Hole]

\* What a worker holding the archive open does to the file at the path: nothing when
\* the file was unlinked under it (its descriptor names a file no path leads to).
Through(f, a) == IF f.zipfd = "open" THEN a ELSE archive

\* Line 135: with zipfile.ZipFile(output_zip_path, 'w') as zipf
ZipOpen(p) ==
    LET f == frame[p] IN
    /\ f.pc = "L135"
    /\ \/ /\ archive' = OpenForWrite(archive)
          /\ Step(p, [f EXCEPT !.zipfd = "open", !.zipPos = Len(archive'.entries),
                               !.calls = @ \cup {"zip"}, !.pc = "L136"])
       \/ /\ archive' = archive
          /\ Step(p, [Caught(f, "L135") EXCEPT !.calls = @ \cup {"zip"}])
    /\ UNCHANGED <<embeddings, runs>>

\* Lines 136-137: zipf.write(file, arcname=...). An exception leaves the with block,
\* which closes the archive with the entries written so far.
ZipWrite(p) ==
    LET f == frame[p]
        name == IF f.pc = "L136" THEN "index.faiss" ELSE "index.pkl"
    IN
    /\ f.pc \in {"L136", "L137"}
    /\ \/ /\ archive' = Through(f, [archive EXCEPT
                            !.entries = WriteAt(@, f.zipPos + 1, Entry(name, f.run))])
          /\ Step(p, [f EXCEPT !.zipPos = @ + 1,
                               !.pc = IF f.pc = "L136" THEN "L137" ELSE "L138"])
       \/ /\ archive' = Through(f, [archive EXCEPT !.closed = TRUE])
          /\ Step(p, [Caught(f, f.pc) EXCEPT !.zipfd = "closed"])
    /\ UNCHANGED <<embeddings, runs>>

\* Line 138: the end of the with block closes the archive.
ZipClose(p) ==
    LET f == frame[p] IN
    /\ f.pc = "L138"
    /\ \/ /\ archive' = Through(f, [archive EXCEPT !.closed = TRUE])
          /\ Step(p, [f EXCEPT !.zipfd = "closed", !.pc = "L141"])
       \/ /\ archive' = archive
          /\ Step(p, [Caught(f, "L138") EXCEPT !.zipfd = "closed"])
    /\ UNCHANGED <<embeddings, runs>>

\* ------------------------------------------------------------- except block
\* Line 149: if os.path.exists(temp_index_dir)
HandlerCheckIndex(p) ==
    LET f == frame[p] IN
    /\ f.pc = "L149"
    /\ Step(p, [f EXCEPT !.pc = IF f.temp_index_dir = "exists" THEN "L150" ELSE "L151"])
    /\ UNCHANGED <<embeddings, runs, archive>>

\* Lines 151-152: if output_zip_path and os.path.exists(output_zip_path): os.remove(...)
\* Removing the file unlinks it under every worker that holds it open.
HandlerRemoveZip(p) ==
    LET f == frame[p] IN
    /\ f.pc = "L151"
    /\ \/ /\ ~(f.output_zip_path # None /\ archive.exists)
          /\ Step(p, [f EXCEPT !.pc = "L156"])
          /\ UNCHANGED archive
       \/ /\ f.output_zip_path # None /\ archive.exists
          /\ archive' = NoFile
          /\ frame' = [q \in Procs |->
                          IF q = p THEN [f EXCEPT !.pc = "L156"]
                          ELSE IF frame[q].zipfd = "open"
                               THEN [frame[q] EXCEPT !.zipfd = "detached"]
                               ELSE frame[q]]
       \/ /\ f.output_zip_path # None /\ archive.exists
          /\ Escape(p, "L152")
          /\ UNCHANGED archive
    /\ UNCHANGED <<embeddings, runs>>

\* ------------------------------------------------------------- returns
\* Lines 80, 98, 111, 144, 156: the pair each return statement hands back.
ReturnValue(f) ==
    CASE f.pc = "L80" -> Failure(ERR_COPY)
      [] f.pc = "L98" -> Failure(ERR_NO_DOCS)
      [] f.pc = "L111" -> Failure(ERR_NO_CHUNKS)
      [] f.pc = "L144" -> Success(Len(f.files_list), f.output_zip_path)
      [] f.pc = "L156" -> Failure(ERR_EXCEPTION)

ReturnStatus(p) ==
    /\ frame[p].pc \in {"L80", "L98", "L111", "L144", "L156"}
    /\ Return(p, frame[p], ReturnValue(frame[p]))
    /\ UNCHANGED <<embeddings, runs, archive>>

\* Lines 182-186: the caller that the click handler is wired to takes what the call
\* gave it; the call is over and its locals are gone.
Deliver(p) ==
    /\ Ended(p)
    /\ Step(p, IdleFrame)
    /\ UNCHANGED <<embeddings, runs, archive>>

\* ------------------------------------------------------------- specifications
Body(p) ==
    \/ MakeUploadDir(p) \/ MakeIndexDir(p) \/ CopyLoop(p) \/ CheckCopies(p)
    \/ ReleaseUpload(p) \/ ReleaseIndex(p)
    \/ Load(p) \/ Split(p) \/ Embed(p) \/ Save(p) \/ Verify(p)
    \/ ZipOpen(p) \/ ZipWrite(p) \/ ZipClose(p)
    \/ HandlerCheckIndex(p) \/ HandlerRemoveZip(p) \/ ReturnStatus(p) \/ Deliver(p)

\* One run at a time, on one worker.
Next == Invoke(Main) \/ Body(Main)

Spec == Init /\ [][Next]_vars

\* Runs on two workers, interleaved statement by statement.
NextConc == \E p \in Procs : InvokeConcurrently(p) \/ Body(p)

SpecConc == Init /\ [][NextConc]_vars

\* ------------------------------------------------------------- properties
Result(p) == frame[p].result
ReturnedSuccess(p) == frame[p].pc = "returned" /\ Result(p).status = OK_SUCCESS
ScratchGone(f) == f.temp_upload_dir # "exists" /\ f.temp_index_dir # "exists"
\* The archive is complete and both of its entries were written by run r.
ArchiveBuiltBy(r) ==
    archive = [exists |-> TRUE, closed |-> TRUE,
               entries |-> <<Entry("index.faiss", r), Entry("index.pkl", r)>>]
ArchiveComplete == archive.exists /\ \E r \in RunIds : ArchiveBuiltBy(r)
PartialArchive == archive.exists /\ ~ArchiveComplete
ZipSites == {"L135", "L136", "L137", "L138"}
\* save_local returned without raising and left an artifact out.
SilentlyIncomplete(f) == "save" \in f.calls /\ f.exc # "L120" /\ f.saved # Artifacts
\* Every upload is a named, existing, decodable .txt file with text in it, and no
\* two uploads are the same file.
ValidTxtBatch(fl) ==
    /\ fl # <<>>
    /\ \A k \in 1..Len(fl) :
          fl[k].hasName /\ MatchesGlob(basename(fl[k].name)) /\ fl[k].content = "text"
    /\ \A j, k \in 1..Len(fl) : j # k => fl[j].name # fl[k].name
\* The inputs whose text is in the index the run built.
IndexedInputs(f) == {c.input : c \in f.vector_store.chunks}

\* C1: when an invocation that created a scratch directory has ended, by a return or
\* by an exception, neither of its scratch directories exists and no partially written
\* archive is at the archive path.
C1_ScratchReleasedOnEveryExit ==
    \A p \in Procs :
        (Ended(p) /\ (frame[p].temp_upload_dir # "none" \/ frame[p].temp_index_dir # "none"))
            => (ScratchGone(frame[p]) /\ ~PartialArchive)

\* C2: no invocation ends by an exception leaving the function; every invocation that
\* has ended returned a pair whose path is None exactly when the status is a failure.
C2_AlwaysReturnsPair ==
    \A p \in Procs :
        /\ frame[p].pc # "raised"
        /\ frame[p].pc = "returned" =>
              /\ (Result(p).path = None) <=> (Result(p).status \in FailureStatuses)
              /\ (Result(p).path # None) => (Result(p).status = OK_SUCCESS)

\* C3: with embeddings None an invocation is over in its first step: it returns the
\* configuration error with path None, for an empty batch too, and no scratch
\* directory, archive or pipeline stage ever comes into being.
C3_UninitializedFailsFast ==
    embeddings = None =>
        /\ archive = NoFile
        /\ \A p \in Procs :
              /\ frame[p].pc \in {"idle", "returned"}
              /\ frame[p].pc = "returned" => Result(p) = Failure(ERR_EMBEDDINGS)
              /\ frame[p].temp_upload_dir = "none" /\ frame[p].temp_index_dir = "none"
              /\ frame[p].calls = {} /\ frame[p].workdir = {}

C3_Witness ==
    /\ embeddings = None
    /\ runs = 2
    /\ frame[Main].pc = "returned"
    /\ Len(frame[Main].files_list) > 0
    /\ Result(Main) = Failure(ERR_EMBEDDINGS)

\* C4: a run that is about to return success (line 144) returns the path of a complete
\* archive whose two entries it wrote itself, whatever another run did meanwhile.
C4_ConcurrentRunsIsolated ==
    \A p \in Procs : frame[p].pc = "L144" => ArchiveBuiltBy(frame[p].run)

\* C5: when the most recent of a sequence of runs has returned success, its path is the
\* fixed archive path, its scratch directories are gone, and the file there is a closed
\* archive of exactly index.faiss and index.pkl, both written by that run.
C5_ArchiveOfLatestSuccess ==
    \A p \in Procs :
        (ReturnedSuccess(p) /\ frame[p].run = runs) =>
            /\ Result(p).path = ArchivePath
            /\ ArchiveBuiltBy(frame[p].run)
            /\ frame[p].temp_upload_dir = "removed" /\ frame[p].temp_index_dir = "removed"

C5_Witness ==
    /\ runs = 2
    /\ ReturnedSuccess(Main) /\ frame[Main].run = 2
    /\ ArchiveBuiltBy(2)

\* C6: a successful run over a batch of valid .txt files reports as its count the
\* number of inputs whose text is in the index it built.
C6_CountIsIndexedInputs ==
    \A p \in Procs :
        (ReturnedSuccess(p) /\ ValidTxtBatch(frame[p].files_list)) =>
            Result(p).n = Cardinality(IndexedInputs(frame[p]))

\* C7: a run whose save returned without error but left index.faiss or index.pkl out
\* ends by returning the failure status with path None, never having opened the
\* archive, with both scratch directories removed.
C7_MissingArtifactsFailCleanly ==
    \A p \in Procs :
        (Ended(p) /\ SilentlyIncomplete(frame[p])) =>
            /\ frame[p].pc = "returned"
            /\ Result(p) = Failure(ERR_EXCEPTION)
            /\ "zip" \notin frame[p].calls
            /\ ScratchGone(frame[p])

\* The part of C7 that every run keeps: the archive is never opened, success is never
\* reported, and a run that does return returns the failure with both directories gone.
C7_WhenTheRunReturns ==
    \A p \in Procs :
        SilentlyIncomplete(frame[p]) =>
            /\ "zip" \notin frame[p].calls
            /\ Result(p).status # OK_SUCCESS
            /\ frame[p].pc = "returned" =>
                  (Result(p) = Failure(ERR_EXCEPTION) /\ ScratchGone(frame[p]))

\* C8: a run in which a copy failed attempts every file of the batch and then ends by
\* returning the copy-failure status with path None, both scratch directories removed
\* and no stage after the copy ever called.
C8_CopyFailureAbortsBatch ==
    \A p \in Procs :
        (Ended(p) /\ ~frame[p].all_files_processed) =>
            /\ frame[p].i = Len(frame[p].files_list)
            /\ frame[p].pc = "returned"
            /\ Result(p) = Failure(ERR_COPY)
            /\ frame[p].calls \subseteq {"copy"}
            /\ ScratchGone(frame[p])

\* The part of C8 that every run keeps: after a failed copy no later stage is called,
\* and a run that does return has attempted every file and returns the copy failure
\* with both directories gone.
C8_WhenTheRunReturns ==
    \A p \in Procs :
        ~frame[p].all_files_processed =>
            /\ frame[p].calls \subseteq {"copy"}
            /\ Result(p).status # OK_SUCCESS
            /\ frame[p].pc = "returned" =>
                  /\ frame[p].i = Len(frame[p].files_list)
                  /\ Result(p) = Failure(ERR_COPY)
                  /\ ScratchGone(frame[p])

\* C9: on the path without an exception a scratch directory is removed only once the
\* archive is closed with both entries of this run; and a run that returns after the
\* archive could not be opened, written or closed leaves no file at the archive path.
C9_CleanupAfterArchive ==
    \A p \in Procs :
        /\ (/\ frame[p].exc = "none"
            /\ frame[p].output_zip_path # None
            /\ (frame[p].temp_upload_dir = "removed" \/ frame[p].temp_index_dir = "removed"))
              => ArchiveBuiltBy(frame[p].run)
        /\ (frame[p].pc = "returned" /\ frame[p].exc \in ZipSites) =>
              (~archive.exists /\ Result(p) = Failure(ERR_EXCEPTION))

C9_Witness ==
    /\ frame[Main].pc = "returned"
    /\ frame[Main].exc = "L137"
    /\ Result(Main) = Failure(ERR_EXCEPTION)
    /\ ~archive.exists
    /\ frame[Main].run = 2

\* C10: a step taken by a run that has not reached the packaging step (the start of the
\* run included) leaves the file at the archive path as it was, so a run that ends
\* before packaging changes nothing there.
C10_ArchiveUntouchedBeforePackaging ==
    [][\A p \in Procs :
          (frame'[p] # frame[p] /\ "zip" \notin frame'[p].calls) => archive' = archive]_vars

C10_Witness ==
    /\ runs = 2
    /\ frame[Main].pc = "returned" /\ frame[Main].run = 2
    /\ Result(Main) = Failure(ERR_EXCEPTION)
    /\ "zip" \notin frame[Main].calls
    /\ ArchiveBuiltBy(1)

====
